---------------------------- MODULE Spec2Model ----------------------------
(***************************************************************************)
(* Model of the row/column <-> object transcoding routines of              *)
(* "Read Write To Sheets.js" (objectsToSheetV2, sheetToObjectsV2,          *)
(* upsertRows) together with the part of the host spreadsheet they use.    *)
(*                                                                         *)
(* A sheet is a grid of cells.  A cell holds a value and a formula text;   *)
(* a cell with a formula shows the value the formula evaluates to.  JS     *)
(* arrays are 0-based, the sequences below are 1-based: array[i] of the    *)
(* source is array[i+1] here, sheet coordinates are 1-based in both.       *)
(***************************************************************************)
EXTENDS Integers, Sequences, FiniteSets, TLC

VARIABLES sheet, prev, call, ret, pc

vars == <<sheet, prev, call, ret, pc>>

(***************************************************************************)
(* Bounds of the model.                                                    *)
(***************************************************************************)
\* the grid is Dim x Dim (rows x columns)
Dim == 3
\* longest list of records passed to one call
MaxRecs == 2

Lines == 1..Dim
Cells == Lines \X Lines

Max(S) == CHOOSE x \in S : \A y \in S : y <= x

(***************************************************************************)
(* The host spreadsheet (SpreadsheetApp Sheet / Range), as far as the      *)
(* source uses it.                                                         *)
(***************************************************************************)
\* the formula texts of the model and the value the host computes for each:
\* one formula shows a value, the other shows nothing
Formula == "=F"
BlankFormula == "=B"
Eval(f) == IF f = BlankFormula THEN "" ELSE "6"

Blank == [v |-> "", f |-> ""]
Literal(x) == [v |-> x, f |-> ""]
FormulaCell(f) == [v |-> Eval(f), f |-> f]

\* a cell read anywhere; the host pads what lies outside the content with ""
At(s, r, c) == IF <<r, c>> \in Cells THEN s[<<r, c>>] ELSE Blank

HasContent(x) == x.v # "" \/ x.f # ""

\* Sheet.getLastRow(): the last row that has content, 0 for an empty sheet
getLastRow(s) ==
  LET R == {p[1] : p \in {q \in Cells : HasContent(s[q])}}
  IN  IF R = {} THEN 0 ELSE Max(R)

\* Sheet.getLastColumn(): the last column that has content
getLastColumn(s) ==
  LET C == {p[2] : p \in {q \in Cells : HasContent(s[q])}}
  IN  IF C = {} THEN 0 ELSE Max(C)

\* Sheet.getRange(row, column, numRows, numColumns) throws unless the range
\* has at least one row and one column
ValidRange(r, c, nr, nc) == r >= 1 /\ c >= 1 /\ nr >= 1 /\ nc >= 1

InRange(p, r, c, nr, nc) ==
  /\ r <= p[1] /\ p[1] < r + nr
  /\ c <= p[2] /\ p[2] < c + nc

\* Range.getValues(): the shown values, a matrix of nr rows and nc columns
GetValues(s, r, c, nr, nc) ==
  [i \in 1..nr |-> [j \in 1..nc |-> At(s, r + i - 1, c + j - 1).v]]

\* Range.getFormulas(): the formula texts, "" where a cell has none
GetFormulas(s, r, c, nr, nc) ==
  [i \in 1..nr |-> [j \in 1..nc |-> At(s, r + i - 1, c + j - 1).f]]

\* Range.clearContent(): values and formulas are removed
ClearContent(s, r, c, nr, nc) ==
  [p \in Cells |-> IF InRange(p, r, c, nr, nc) THEN Blank ELSE s[p]]

\* Range.setValues(matrix): every cell of the range becomes a literal
SetValues(s, r, c, nr, nc, m) ==
  [p \in Cells |->
     IF InRange(p, r, c, nr, nc)
     THEN Literal(m[p[1] - r + 1][p[2] - c + 1])
     ELSE s[p]]

\* Range.setFormula(text) on one cell
SetFormula(s, r, c, f) ==
  [p \in Cells |-> IF p = <<r, c>> THEN FormulaCell(f) ELSE s[p]]

\* Sheet.getDataRange().getValues(): A1 up to the last row and column that
\* have content; one cell for an empty sheet
DataRangeValues(s) ==
  GetValues(s, 1, 1, Max({1, getLastRow(s)}), Max({1, getLastColumn(s)}))

\* Array.some(cell => cell !== "" ...) on one row of values
SomeNonEmpty(row) == \E j \in DOMAIN row : row[j] # ""

(***************************************************************************)
(* Records: a record is a function from its own keys to values.            *)
(***************************************************************************)
hasOwnProperty(obj, key) == key \in DOMAIN obj

\* the outcome of a call: the sheet it leaves and whether it threw
Done(s) == [sheet |-> s, status |-> "ok"]
Thrown(s) == [sheet |-> s, status |-> "error"]

(***************************************************************************)
(* objectsToSheetV2 (lines 87-314).                                        *)
(***************************************************************************)
\* lines 91-100 and Code.js 12-27: the last row of the data range with a
\* non-empty value, 1 when there is none
getLastNonEmptyRow(s) ==
  LET values == DataRangeValues(s)
      R == {row \in DOMAIN values : SomeNonEmpty(values[row])}
  IN  IF R = {} THEN 1 ELSE Max(R)

\* lines 103-117: the last column, not before startCol, with a non-empty
\* value; startCol when there is none
getLastNonEmptyColumn(s, startCol) ==
  LET lastCol == getLastColumn(s)
      lastRow == getLastRow(s)
      C == {col \in startCol..lastCol :
              \E row \in 1..lastRow : At(s, row, col).v # ""}
  IN  IF lastCol = 0 \/ lastRow = 0 THEN startCol
      ELSE IF C = {} THEN startCol ELSE Max(C)

\* line 122 (and 239, 229, 920): one line per record, as long as the header
\* line; a position takes the record's value when the record has the
\* header as an own key and "" otherwise
EncodeLine(obj, headers) ==
  [j \in DOMAIN headers |->
     IF hasOwnProperty(obj, headers[j]) THEN obj[headers[j]] ELSE ""]

Encode(array, headers) ==
  [i \in DOMAIN array |-> EncodeLine(array[i], headers)]

\* a restore that puts no formula back
RestoreNothing(s, r, c, formulas) == s

\* lines 142-148: every snapshotted formula goes back to its cell
RestoreFormulas(s, r, c, formulas) ==
  [p \in Cells |->
     LET i == p[1] - r + 1
         j == p[2] - c + 1
     IN  IF i \in DOMAIN formulas /\ j \in DOMAIN formulas[i]
            /\ formulas[i][j] # ""
         THEN FormulaCell(formulas[i][j])
         ELSE s[p]]

\* an overwrite that does not clear the region before it writes
NormalOverwriteNoClear(array, s, headers, startIndex, preserveFormulas) ==
  IF Len(array) > 0
  THEN Done(SetValues(s, startIndex, 1, Len(array), Len(headers),
                      [i \in DOMAIN array |->
                         [j \in DOMAIN headers |->
                            IF headers[j] \in DOMAIN array[i]
                            THEN array[i][headers[j]] ELSE ""]]))
  ELSE Done(s)

\* an overwrite that puts the formulas back before it writes the values
NormalOverwriteReplayFirst(array, s, headers, startIndex, preserveFormulas) ==
  LET lastRow == getLastRow(s)
      W == Len(headers)
      dataToInsert == Encode(array, headers)
      N == Len(dataToInsert)
      numRows == lastRow - startIndex + 1
      formulas == GetFormulas(s, startIndex, 1, numRows, W)
      s1 == IF lastRow >= startIndex
            THEN ClearContent(s, startIndex, 1, numRows, W)
            ELSE s
      s2 == IF preserveFormulas /\ lastRow >= startIndex
            THEN RestoreFormulas(s1, startIndex, 1, formulas)
            ELSE s1
  IN  Done(IF N > 0 THEN SetValues(s2, startIndex, 1, N, W, dataToInsert)
           ELSE s2)

\* lines 124-158: overwrite, records as rows
NormalOverwrite(array, s, headers, startIndex, preserveFormulas) ==
  LET lastRow == getLastRow(s)
      W == Len(headers)
      dataToInsert == Encode(array, headers)
      N == Len(dataToInsert)
      numRows == lastRow - startIndex + 1
  IN  IF preserveFormulas /\ lastRow >= startIndex
      THEN LET formulas == GetFormulas(s, startIndex, 1, numRows, W)
               s1 == ClearContent(s, startIndex, 1, numRows, W)
               s2 == IF N > 0
                     THEN SetValues(s1, startIndex, 1, N, W, dataToInsert)
                     ELSE s1
           IN  Done(RestoreFormulas(s2, startIndex, 1, formulas))
      ELSE LET s1 == IF lastRow >= startIndex
                     THEN ClearContent(s, startIndex, 1, numRows, W)
                     ELSE s
           IN  Done(IF N > 0
                    THEN SetValues(s1, startIndex, 1, N, W, dataToInsert)
                    ELSE s1)

\* an append that starts on the last non-empty row instead of after it
NormalAppendOnLast(array, s, headers) ==
  IF Len(array) > 0
  THEN Done(SetValues(s, Max({1, getLastRow(s)}), 1, Len(array), Len(headers),
                      [i \in DOMAIN array |->
                         [j \in DOMAIN headers |->
                            IF headers[j] \in DOMAIN array[i]
                            THEN array[i][headers[j]] ELSE ""]]))
  ELSE Done(s)

\* lines 160-164: append, records as rows
NormalAppend(array, s, headers) ==
  LET lastRow == getLastNonEmptyRow(s)
      dataToInsert == Encode(array, headers)
      N == Len(dataToInsert)
  IN  Done(IF N > 0
           THEN SetValues(s, lastRow + 1, 1, N, Len(headers), dataToInsert)
           ELSE s)

\* a batch overlay that writes the padded lines, blanking the fields a
\* record does not supply
NormalOverlayBatchPadded(array, s, headers, startIndex) ==
  IF Len(array) = 0 \/ Len(headers) = 0 THEN Thrown(s)
  ELSE Done(SetValues(s, startIndex, 1, Len(array), Len(headers),
                      [i \in DOMAIN array |->
                         [j \in DOMAIN headers |->
                            IF headers[j] \in DOMAIN array[i]
                            THEN array[i][headers[j]] ELSE ""]]))

\* lines 171-182: overlay in one batch, records as rows
NormalOverlayBatch(array, s, headers, startIndex) ==
  LET N == Len(array)
      W == Len(headers)
      currentData == GetValues(s, startIndex, 1, N, W)
      patched == [i \in 1..N |-> [j \in 1..W |->
                    IF hasOwnProperty(array[i], headers[j])
                    THEN array[i][headers[j]]
                    ELSE currentData[i][j]]]
  IN  IF ~ValidRange(startIndex, 1, N, W) THEN Thrown(s)
      ELSE Done(SetValues(s, startIndex, 1, N, W, patched))

\* lines 199-203 (and 302-306): the formulas of the fields the record does
\* not supply go back to the line that was just written
ReapplyFormulas(s, obj, headers, currentFormulas, line, pivot) ==
  [p \in Cells |->
     LET j == IF pivot THEN p[1] ELSE p[2]
     IN  IF (IF pivot THEN p[2] ELSE p[1]) = line /\ j \in DOMAIN headers
            /\ ~hasOwnProperty(obj, headers[j]) /\ currentFormulas[j] # ""
         THEN FormulaCell(currentFormulas[j])
         ELSE s[p]]

\* lines 185-204: overlay row by row, from the record at position i on
RECURSIVE NormalOverlayRows(_, _, _, _, _)
NormalOverlayRows(array, s, headers, startIndex, i) ==
  IF i > Len(array) THEN s
  ELSE LET targetRow == startIndex + i - 1
           W == Len(headers)
           currentValues == GetValues(s, targetRow, 1, 1, W)[1]
           currentFormulas == GetFormulas(s, targetRow, 1, 1, W)[1]
           newRow == [j \in 1..W |->
                        IF hasOwnProperty(array[i], headers[j])
                        THEN array[i][headers[j]]
                        ELSE currentValues[j]]
           s1 == SetValues(s, targetRow, 1, 1, W, <<newRow>>)
           s2 == ReapplyFormulas(s1, array[i], headers, currentFormulas,
                                 targetRow, FALSE)
       IN  NormalOverlayRows(array, s2, headers, startIndex, i + 1)

\* lines 119-209: records as rows
NormalWrite(array, s, headerIndex, startIndex, mode, preserveFormulas) ==
  LET W == getLastColumn(s)
      headers == GetValues(s, headerIndex, 1, 1, W)[1]
  IN  IF ~ValidRange(headerIndex, 1, 1, W) THEN Thrown(s)
      ELSE IF mode = "overwrite"
           THEN NormalOverwrite(array, s, headers, startIndex, preserveFormulas)
      ELSE IF mode = "append" THEN NormalAppend(array, s, headers)
      ELSE IF mode = "overlay"
           THEN IF ~preserveFormulas
                THEN NormalOverlayBatch(array, s, headers, startIndex)
                ELSE Done(NormalOverlayRows(array, s, headers, startIndex, 1))
      ELSE Thrown(s)

\* a list of values as a matrix of one column (lines 239, 294)
AsColumn(line) == [i \in DOMAIN line |-> <<line[i]>>]

\* lines 219-234: append, records as columns
PivotAppend(array, s, properties, startIndex) ==
  LET baseCol == getLastNonEmptyColumn(s, startIndex) + 1
      numProperties == Len(properties)
      numNewCols == Len(array)
      batchData == [i \in 1..numProperties |-> [j \in 1..numNewCols |->
                      IF hasOwnProperty(array[j], properties[i])
                      THEN array[j][properties[i]]
                      ELSE ""]]
  IN  IF ~ValidRange(1, baseCol, numProperties, numNewCols) THEN Thrown(s)
      ELSE Done(SetValues(s, 1, baseCol, numProperties, numNewCols, batchData))

\* lines 237-262: overwrite column by column, from the record at position
\* index on
RECURSIVE PivotOverwrite(_, _, _, _, _, _)
PivotOverwrite(array, s, properties, startIndex, preserveFormulas, index) ==
  IF index > Len(array) THEN Done(s)
  ELSE LET targetCol == startIndex + index - 1
           numProperties == Len(properties)
           columnData == AsColumn(EncodeLine(array[index], properties))
       IN  IF ~ValidRange(1, targetCol, numProperties, 1) THEN Thrown(s)
           ELSE IF preserveFormulas
           THEN LET formulas == GetFormulas(s, 1, targetCol, numProperties, 1)
                    s1 == ClearContent(s, 1, targetCol, numProperties, 1)
                    s2 == SetValues(s1, 1, targetCol, numProperties, 1,
                                    columnData)
                    s3 == RestoreFormulas(s2, 1, targetCol, formulas)
                IN  PivotOverwrite(array, s3, properties, startIndex,
                                   preserveFormulas, index + 1)
           ELSE PivotOverwrite(array,
                               SetValues(s, 1, targetCol, numProperties, 1,
                                         columnData),
                               properties, startIndex, preserveFormulas,
                               index + 1)

\* lines 269-281: overlay in one batch, records as columns
PivotOverlayBatch(array, s, properties, startIndex) ==
  LET numNewCols == Len(array)
      numProperties == Len(properties)
      currentData == GetValues(s, 1, startIndex, numProperties, numNewCols)
      patched == [i \in 1..numProperties |-> [j \in 1..numNewCols |->
                    IF hasOwnProperty(array[j], properties[i])
                    THEN array[j][properties[i]]
                    ELSE currentData[i][j]]]
  IN  IF ~ValidRange(1, startIndex, numProperties, numNewCols) THEN Thrown(s)
      ELSE Done(SetValues(s, 1, startIndex, numProperties, numNewCols,
                          patched))

\* lines 284-307: overlay column by column, from the record at position
\* index on
RECURSIVE PivotOverlayColumns(_, _, _, _, _)
PivotOverlayColumns(array, s, properties, startIndex, index) ==
  IF index > Len(array) THEN Done(s)
  ELSE LET targetCol == startIndex + index - 1
           numProperties == Len(properties)
           obj == array[index]
           currentValues ==
             [i \in 1..numProperties |-> At(s, i, targetCol).v]
           currentFormulas ==
             [i \in 1..numProperties |-> At(s, i, targetCol).f]
           newColData == [i \in 1..numProperties |->
                            IF hasOwnProperty(obj, properties[i])
                            THEN obj[properties[i]]
                            ELSE currentValues[i]]
           s1 == SetValues(s, 1, targetCol, numProperties, 1,
                           AsColumn(newColData))
           s2 == ReapplyFormulas(s1, obj, properties, currentFormulas,
                                 targetCol, TRUE)
       IN  IF ~ValidRange(1, targetCol, numProperties, 1) THEN Thrown(s)
           ELSE PivotOverlayColumns(array, s2, properties, startIndex,
                                    index + 1)

\* lines 211-313: records as columns
PivotWrite(array, s, headerIndex, startIndex, mode, preserveFormulas) ==
  LET lastRow == getLastRow(s)
      propertyNames == GetValues(s, 1, headerIndex, lastRow, 1)
      properties == [i \in 1..lastRow |-> propertyNames[i][1]]
  IN  IF ~ValidRange(1, headerIndex, lastRow, 1) THEN Thrown(s)
      ELSE IF mode = "append"
           THEN PivotAppend(array, s, properties, startIndex)
      ELSE IF mode = "overwrite"
           THEN PivotOverwrite(array, s, properties, startIndex,
                               preserveFormulas, 1)
      ELSE IF mode = "overlay"
           THEN IF ~preserveFormulas
                THEN PivotOverlayBatch(array, s, properties, startIndex)
                ELSE PivotOverlayColumns(array, s, properties, startIndex, 1)
      ELSE Thrown(s)

\* a writer that takes a mode it does not know for overwrite
objectsToSheetV2AnyMode(array, s, headerIndex, startIndex, mode, pivot, preserveFormulas) ==
  LET known == IF mode \in {"overwrite", "append", "overlay"}
               THEN mode ELSE "overwrite"
  IN  IF ~pivot
      THEN NormalWrite(array, s, headerIndex, startIndex, known,
                       preserveFormulas)
      ELSE PivotWrite(array, s, headerIndex, startIndex, known,
                      preserveFormulas)

\* lines 87-314
objectsToSheetV2(array, s, headerIndex, startIndex, mode, pivot, preserveFormulas) ==
  IF ~pivot
  THEN NormalWrite(array, s, headerIndex, startIndex, mode, preserveFormulas)
  ELSE PivotWrite(array, s, headerIndex, startIndex, mode, preserveFormulas)

(***************************************************************************)
(* objectsToSheet (lines 33-63) and clearSheetContentFromRow (lines 2-23). *)
(***************************************************************************)
\* lines 2-23: the content from startRow down is cleared, over the columns
\* up to the last one with content
clearSheetContentFromRow(s, startRow) ==
  LET lastRow == getLastRow(s)
      lastColumn == getLastColumn(s)
  IN  IF lastRow >= startRow
      THEN IF ValidRange(startRow, 1, lastRow - startRow + 1, lastColumn)
           THEN Done(ClearContent(s, startRow, 1, lastRow - startRow + 1,
                                  lastColumn))
           ELSE Thrown(s)
      ELSE Done(s)

\* lines 33-63
objectsToSheet(array, s, headerRowIndex, startRowIndex, mode) ==
  LET W == getLastColumn(s)
      headers == GetValues(s, headerRowIndex, 1, 1, W)[1]
      dataToInsert == Encode(array, headers)
      cleared == clearSheetContentFromRow(s, startRowIndex)
      lastRow == getLastNonEmptyRow(s)
  IN  IF ~ValidRange(headerRowIndex, 1, 1, W) THEN Thrown(s)
      ELSE IF mode = "overwrite"
           THEN IF cleared.status = "ok" /\ Len(dataToInsert) > 0
                THEN Done(SetValues(cleared.sheet, startRowIndex, 1,
                                    Len(dataToInsert), Len(headers),
                                    dataToInsert))
                ELSE cleared
      ELSE IF mode = "append"
           THEN IF Len(dataToInsert) > 0
                THEN Done(SetValues(s, lastRow + 1, 1, Len(dataToInsert),
                                    Len(headers), dataToInsert))
                ELSE Done(s)
      ELSE Thrown(s)

(***************************************************************************)
(* sheetToObjectsV2 (lines 338-459), without dates.                        *)
(***************************************************************************)
\* lines 359-361: the matrix with rows and columns exchanged; it has as
\* many rows as the first row of the matrix has entries
transpose(matrix) ==
  [colIndex \in DOMAIN matrix[1] |->
     [rowIndex \in DOMAIN matrix |-> matrix[rowIndex][colIndex]]]

\* cell values that are dates, and the text the host displays for a value:
\* a date is displayed in the format of its cell, any other value of the
\* model as it is
DateOne == "@date1"
DateTwo == "@date2"
IsDate(value) == value \in {DateOne, DateTwo}
Display(value) ==
  IF value = DateOne THEN "1 Jan"
  ELSE IF value = DateTwo THEN "2 Feb"
  ELSE value

\* Range.getDisplayValues(): the displayed texts of a range
GetDisplayValues(s, r, c, nr, nc) ==
  [i \in 1..nr |-> [j \in 1..nc |-> Display(At(s, r + i - 1, c + j - 1).v)]]

\* lines 436-448: what a field receives from a cell that is not empty; for
\* a date the text found in the display data
FieldValue(value, display, useDisplayDates) ==
  IF IsDate(value) /\ useDisplayDates THEN display ELSE value

\* a conversion in which the last position of a name alone sets the field
RowToObjectLastPosition(row, headers, displayRow, useDisplayDates) ==
  LET last(key) == Max({k \in DOMAIN headers : headers[k] = key})
      set == {j \in DOMAIN headers :
                headers[j] # "" /\ row[last(headers[j])] # ""}
  IN  [key \in {headers[j] : j \in set} |->
         FieldValue(row[last(key)], displayRow[last(key)], useDisplayDates)]

\* lines 432-449: the record of one line; a blank header gives no field,
\* an empty value sets no field, a later header of the same name sets the
\* field again
RowToObject(row, headers, displayRow, useDisplayDates) ==
  LET set == {j \in DOMAIN headers : headers[j] # "" /\ row[j] # ""}
  IN  [key \in {headers[j] : j \in set} |->
         LET j == Max({k \in set : headers[k] = key})
         IN  FieldValue(row[j], displayRow[j], useDisplayDates)]

\* what a call returns
Returned(kind, data) == [kind |-> kind, data |-> data]

\* a conversion that drops no line
RowsToObjectsUnfiltered(data, displayData, headers, useDisplayDates) ==
  Returned("records",
           [rowIndex \in DOMAIN data |->
              RowToObject(data[rowIndex], headers, displayData[rowIndex],
                          useDisplayDates)])

\* lines 423-458: empty lines are dropped, the rest become records; the
\* display data is indexed by the position in the filtered lines (line 440)
RowsToObjects(data, displayData, headers, useDisplayDates) ==
  LET filteredData == SelectSeq(data, SomeNonEmpty)
  IN  IF Len(filteredData) = 0 THEN Returned("empty", <<>>)
      ELSE Returned("records",
                    [rowIndex \in DOMAIN filteredData |->
                       RowToObject(filteredData[rowIndex], headers,
                                   displayData[rowIndex], useDisplayDates)])

\* lines 391-406: rows are records
NormalRead(s, headerIndex, startIndex, useDisplayDates) ==
  LET W == getLastColumn(s)
      headers == GetValues(s, headerIndex, 1, 1, W)[1]
      lastRow == getLastRow(s)
      data == GetValues(s, startIndex, 1, lastRow - startIndex + 1, W)
      displayData == GetDisplayValues(s, startIndex, 1,
                                      lastRow - startIndex + 1, W)
  IN  IF ~ValidRange(headerIndex, 1, 1, W) THEN Returned("error", <<>>)
      ELSE IF lastRow < startIndex THEN Returned("null", <<>>)
      ELSE RowsToObjects(data, displayData, headers, useDisplayDates)

\* lines 407-421: columns are records
PivotRead(s, headerIndex, startIndex, useDisplayDates) ==
  LET lastRow == getLastRow(s)
      lastCol == getLastColumn(s)
      headers == [i \in 1..lastRow |-> At(s, i, headerIndex).v]
      rawData == GetValues(s, 1, startIndex, lastRow, lastCol - startIndex + 1)
      rawDispData == GetDisplayValues(s, 1, startIndex, lastRow,
                                      lastCol - startIndex + 1)
  IN  IF ~ValidRange(1, headerIndex, lastRow, 1) THEN Returned("error", <<>>)
      ELSE IF ~ValidRange(1, startIndex, lastRow, lastCol - startIndex + 1)
           THEN Returned("error", <<>>)
      ELSE RowsToObjects(transpose(rawData), transpose(rawDispData), headers,
                         useDisplayDates)

\* lines 338-459, with the option useDisplayDates
sheetToObjectsV2Options(s, headerIndex, startIndex, pivot, useDisplayDates) ==
  IF ~pivot THEN NormalRead(s, headerIndex, startIndex, useDisplayDates)
  ELSE PivotRead(s, headerIndex, startIndex, useDisplayDates)

\* lines 338-459, with the options left at their defaults (line 342)
sheetToObjectsV2(s, headerIndex, startIndex, pivot) ==
  sheetToObjectsV2Options(s, headerIndex, startIndex, pivot, TRUE)

\* a reader that calls the helper of lines 361-373
SheetAfterReadCleared(s, startIndex) ==
  clearSheetContentFromRow(s, startIndex).sheet

\* lines 338-459 and 583-635: the sheet after a call of a reader; the
\* readers call getName, getLastRow, getLastColumn, getRange, getValues and
\* getDisplayValues of the sheet, and none of the helpers that write
SheetAfterRead(s, startIndex) == s

\* lines 583-635: the reader of rows, with lastColumn left out
sheetToObjects(s, startRow, headerRow) ==
  LET lastColumnIndex == getLastColumn(s)
      headers == GetValues(s, headerRow, 1, 1, lastColumnIndex)[1]
      lastRow == getLastRow(s)
      data == GetValues(s, startRow, 1, lastRow - startRow + 1, Len(headers))
  IN  IF ~ValidRange(headerRow, 1, 1, lastColumnIndex)
      THEN Returned("error", <<>>)
      ELSE IF lastRow < startRow THEN Returned("null", <<>>)
      ELSE RowsToObjects(data, data, headers, FALSE)


(***************************************************************************)
(* upsertRows (lines 835-932).                                             *)
(***************************************************************************)
\* the number 0 as a cell or record value; the other values are non-empty
\* strings or ""
NumberZero == "#0"

\* a number passed where a field name is expected
NumberSeven == "#7"

\* typeof value === 'string'
IsString(value) == value \notin {NumberZero, NumberSeven}

\* an object that is not an array, passed where an array is expected
NotAnArray == <<[notAnArray |-> "object"]>>

\* Array.isArray(data)
IsArray(value) == value # NotAnArray

\* an object that is not an array, passed where the column names are expected
NotAColumnArray == <<"#object">>

\* Array.isArray(columnsToAdd)
IsColumnArray(value) == value # NotAColumnArray

\* !value of the source: "" and 0 are falsy
Falsy(value) == value \in {"", NumberZero}

\* headers.indexOf(name), counted from 1; 0 when the name is absent
IndexOf(headers, name) ==
  LET J == {j \in DOMAIN headers : headers[j] = name}
  IN  IF J = {} THEN 0 ELSE CHOOSE j \in J : \A k \in J : j <= k

\* lines 861-867: the row (index into sheetData) the map holds for a match
\* value; 0 when it holds none.  Rows are entered from the top, a later row
\* with the same value replaces the earlier entry.
ExistingRow(sheetData, columnIndexToMatch, value) ==
  LET I == {i \in 2..Len(sheetData) :
              /\ sheetData[i][columnIndexToMatch] # ""
              /\ sheetData[i][columnIndexToMatch] = value}
  IN  IF I = {} THEN 0 ELSE Max(I)

\* lines 879-881: the record goes to the records to append
IsNewRecord(rowObject, sheetData, columnToMatch, columnIndexToMatch) ==
  \/ ~hasOwnProperty(rowObject, columnToMatch)
  \/ Falsy(rowObject[columnToMatch])
  \/ ExistingRow(sheetData, columnIndexToMatch, rowObject[columnToMatch]) = 0

\* an update that rewrites the whole matched row from the record
UpdateRowPadded(s, rowIndex, rowObject, headers) ==
  [p \in Cells |->
     IF p[1] = rowIndex /\ p[2] \in DOMAIN headers
     THEN Literal(IF headers[p[2]] \in DOMAIN rowObject
                  THEN rowObject[headers[p[2]]] ELSE "")
     ELSE s[p]]

\* lines 895-901: one setValue per key of the record that is a header, at
\* the first column of that header
UpdateRow(s, rowIndex, rowObject, headers) ==
  [p \in Cells |->
     IF /\ p[1] = rowIndex
        /\ \E key \in DOMAIN rowObject : IndexOf(headers, key) = p[2]
     THEN Literal(rowObject[headers[p[2]]])
     ELSE s[p]]

\* lines 893-902: the updates in the order of the records, from position i
RECURSIVE UpdateRows(_, _, _, _, _, _)
UpdateRows(s, data, sheetData, headers, columnToMatch, i) ==
  IF i > Len(data) THEN s
  ELSE LET columnIndexToMatch == IndexOf(headers, columnToMatch)
           rowObject == data[i]
           s1 == IF IsNewRecord(rowObject, sheetData, columnToMatch,
                                columnIndexToMatch)
                 THEN s
                 ELSE UpdateRow(s, ExistingRow(sheetData, columnIndexToMatch,
                                               rowObject[columnToMatch]),
                                rowObject, headers)
       IN  UpdateRows(s1, data, sheetData, headers, columnToMatch, i + 1)

\* lines 908-931: the records without a matching row, appended after the
\* last non-empty row
AppendNewRecords(s, newRecords, headers) ==
  LET appendStartRow == getLastNonEmptyRow(s) + 1
      rowsToAppend == Encode(newRecords, headers)
  IN  IF Len(newRecords) > 0
      THEN SetValues(s, appendStartRow, 1, Len(rowsToAppend), Len(headers),
                     rowsToAppend)
      ELSE s

\* lines 840-931: the call once its parameters are accepted
UpsertValidated(s, data, columnToMatch, headerRowIndex) ==
  IF Len(data) = 0 THEN Done(s)
  ELSE LET sheetData == DataRangeValues(s)
           headers == sheetData[1]
           columnIndexToMatch == IndexOf(headers, columnToMatch)
           IsNew(rowObject) == IsNewRecord(rowObject, sheetData, columnToMatch,
                                           columnIndexToMatch)
           newRecords == SelectSeq(data, IsNew)
           s1 == UpdateRows(s, data, sheetData, headers, columnToMatch, 1)
       IN  IF columnIndexToMatch = 0 THEN Thrown(s)
           ELSE Done(AppendNewRecords(s1, newRecords, headers))

\* a call that returns when a parameter has the wrong shape
upsertRowsLenient(s, data, columnToMatch, headerRowIndex) ==
  IF ~IsArray(data) \/ ~IsString(columnToMatch) THEN Done(s)
  ELSE UpsertValidated(s, data, columnToMatch, headerRowIndex)

\* lines 835-932
upsertRows(s, data, columnToMatch, headerRowIndex) ==
  IF ~IsArray(data) \/ ~IsString(columnToMatch) THEN Thrown(s)
  ELSE UpsertValidated(s, data, columnToMatch, headerRowIndex)

(***************************************************************************)
(* findAndUpdateRows (lines 701-778).                                      *)
(***************************************************************************)
\* lines 742-745: the record the lookup map holds for a value; a later
\* record with the same match value replaces an earlier one.  A record
\* without the match field is entered under undefined, which no cell shows.
LookupIndex(data, columnToMatch, value) ==
  LET I == {i \in DOMAIN data : /\ hasOwnProperty(data[i], columnToMatch)
                                /\ data[i][columnToMatch] = value}
  IN  IF I = {} THEN 0 ELSE Max(I)

\* line 768: matchedObject[columnName] || ""
ValueOrEmpty(obj, columnName) ==
  IF hasOwnProperty(obj, columnName) /\ ~Falsy(obj[columnName])
  THEN obj[columnName] ELSE ""

\* lines 761-775: the columns are rewritten one by one, from position k of
\* the requested names; a name the header lacks is skipped (lines 724-740)
RECURSIVE UpdateColumns(_, _, _, _, _, _, _)
UpdateColumns(s, data, sheetData, headers, columnToMatch, columnsToAdd, k) ==
  IF k > Len(columnsToAdd) THEN s
  ELSE LET columnName == columnsToAdd[k]
           columnIndex == IndexOf(headers, columnName)
           columnIndexToMatch == IndexOf(headers, columnToMatch)
           numRows == Len(sheetData) - 1
           columnValues == GetValues(s, 2, columnIndex, numRows, 1)
           Updated(i) ==
             LET hit == LookupIndex(data, columnToMatch,
                                    sheetData[i + 1][columnIndexToMatch])
             IN  IF hit = 0 THEN columnValues[i]
                 ELSE <<ValueOrEmpty(data[hit], columnName)>>
           s1 == IF columnIndex = 0 THEN s
                 ELSE SetValues(s, 2, columnIndex, numRows, 1,
                                [i \in 1..numRows |-> Updated(i)])
       IN  UpdateColumns(s1, data, sheetData, headers, columnToMatch,
                         columnsToAdd, k + 1)

\* lines 723-776: what the call does once the match column is found
UpdateMatched(s, data, sheetData, columnToMatch, columnsToAdd) ==
  LET headers == sheetData[1]
      columnIndexToMatch == IndexOf(headers, columnToMatch)
      columnsInfo == SelectSeq(columnsToAdd,
                               LAMBDA column : IndexOf(headers, column) # 0)
      rowsToUpdate ==
        {i \in 2..Len(sheetData) :
           LookupIndex(data, columnToMatch, sheetData[i][columnIndexToMatch]) # 0}
  IN  IF Len(columnsInfo) = 0 THEN Done(s)
      ELSE IF rowsToUpdate = {} THEN Done(s)
      ELSE Done(UpdateColumns(s, data, sheetData, headers, columnToMatch,
                              columnsToAdd, 1))

\* a call that returns when the header lacks the match column
findAndUpdateRowsUnchecked(s, data, columnToMatch, columnsToAdd) ==
  LET sheetData == DataRangeValues(s)
  IN  IF Len(sheetData) < 2 \/ IndexOf(sheetData[1], columnToMatch) = 0
      THEN Done(s)
      ELSE UpdateMatched(s, data, sheetData, columnToMatch, columnsToAdd)

\* a call that throws when the header lacks a requested column
findAndUpdateRowsStrict(s, data, columnToMatch, columnsToAdd) ==
  LET sheetData == DataRangeValues(s)
      headers == sheetData[1]
  IN  IF Len(sheetData) < 2 THEN Done(s)
      ELSE IF IndexOf(headers, columnToMatch) = 0 THEN Thrown(s)
      ELSE IF \E k \in DOMAIN columnsToAdd : IndexOf(headers, columnsToAdd[k]) = 0
           THEN Thrown(s)
      ELSE UpdateMatched(s, data, sheetData, columnToMatch, columnsToAdd)

\* lines 701-778
findAndUpdateRows(s, data, columnToMatch, columnsToAdd) ==
  LET sheetData == DataRangeValues(s)
      headers == sheetData[1]
      columnIndexToMatch == IndexOf(headers, columnToMatch)
  IN  IF \/ ~IsArray(data) \/ ~IsString(columnToMatch)
         \/ ~IsColumnArray(columnsToAdd)
      THEN Thrown(s)
      ELSE IF Len(sheetData) < 2 THEN Done(s)
      ELSE IF columnIndexToMatch = 0 THEN Thrown(s)
      ELSE UpdateMatched(s, data, sheetData, columnToMatch, columnsToAdd)

\* lines 724-740: the names the call logs a warning for; none when it
\* returns or throws before that step
findAndUpdateRowsWarnings(s, data, columnToMatch, columnsToAdd) ==
  LET sheetData == DataRangeValues(s)
      headers == sheetData[1]
  IN  IF \/ ~IsArray(data) \/ ~IsString(columnToMatch)
         \/ ~IsColumnArray(columnsToAdd)
         \/ Len(sheetData) < 2
         \/ IndexOf(headers, columnToMatch) = 0
      THEN <<>>
      ELSE SelectSeq(columnsToAdd, LAMBDA column : IndexOf(headers, column) = 0)

(***************************************************************************)
(* The calls the model makes.                                              *)
(***************************************************************************)
\* the sheet with rows and columns exchanged
TransposeSheet(s) == [p \in Cells |-> s[<<p[2], p[1]>>]]

\* header lines of the initial tables: two fields, one blank entry, one
\* name twice
HeaderLines == {<<"Name", "Age">>, <<"", "Age">>, <<"Name", "Name">>}

\* what a data cell of an initial table holds
CellKinds == {Blank, Literal("x"), FormulaCell(Formula)}

\* an initial table, rows as records: the header in row 1, data below it
Table(hdr, body) ==
  [p \in Cells |->
     IF p[1] = 1 THEN (IF p[2] \in DOMAIN hdr THEN Literal(hdr[p[2]]) ELSE Blank)
     ELSE IF p \in DOMAIN body THEN body[p] ELSE Blank]

DataCells == {p \in Cells : p[1] >= 2 /\ p[2] <= 2}

NormalTables ==
  {Table(hdr, body) : hdr \in HeaderLines, body \in [DataCells -> CellKinds]}

\* the records a caller passes
Keys == {"Name", "Age"}
RecVals == {"", "y"}
Records == UNION {[S -> RecVals] : S \in SUBSET Keys}
RecordLists == UNION {[1..n -> Records] : n \in 0..MaxRecs}

\* the header line of the initial tables is line 1
HeaderIndexes == {1}

NoCall ==
  [fn |-> "none", array |-> <<>>, headerIndex |-> 0, startIndex |-> 0,
   mode |-> "", pivot |-> FALSE, preserveFormulas |-> FALSE,
   columnsToAdd |-> <<>>, useDisplayDates |-> TRUE]

\* the last line (row, or column when pivot) a call writes or reads; the
\* model makes only the calls that stay inside its grid
LastLineTouched(array, s, startIndex, mode, pivot) ==
  IF mode = "append"
  THEN (IF pivot THEN getLastNonEmptyColumn(s, startIndex)
                 ELSE getLastNonEmptyRow(s)) + Len(array)
  ELSE startIndex + Len(array) - 1

Init ==
  /\ \E t \in NormalTables, pivot \in BOOLEAN :
       /\ sheet = IF pivot THEN TransposeSheet(t) ELSE t
       /\ call = [NoCall EXCEPT !.pivot = pivot]
  /\ prev = sheet
  /\ ret = Returned("none", <<>>)
  /\ pc = "idle"

\* a caller writes records with objectsToSheetV2 in one mode, in the
\* orientation of the table
Write(mode) ==
  /\ pc = "idle"
  /\ \E array \in RecordLists, headerIndex \in HeaderIndexes,
        startIndex \in Lines, preserveFormulas \in BOOLEAN :
       LET pivot == call.pivot
           r == objectsToSheetV2(array, sheet, headerIndex, startIndex, mode,
                                 pivot, preserveFormulas)
       IN  /\ LastLineTouched(array, sheet, startIndex, mode, pivot) <= Dim
           /\ sheet' = r.sheet
           /\ prev' = sheet
           /\ ret' = Returned(r.status, <<>>)
           /\ call' = [fn |-> "objectsToSheetV2", array |-> array,
                       headerIndex |-> headerIndex, startIndex |-> startIndex,
                       mode |-> mode, pivot |-> pivot,
                       preserveFormulas |-> preserveFormulas,
                       columnsToAdd |-> <<>>, useDisplayDates |-> TRUE]
  /\ pc' = "written"

WriteOverwrite == Write("overwrite")
WriteAppend == Write("append")
WriteOverlay == Write("overlay")

\* the caller reads back what was written, with the same header and start
\* index and orientation
ReadBack ==
  /\ pc = "written"
  /\ ret' = sheetToObjectsV2(sheet, call.headerIndex, call.startIndex,
                             call.pivot)
  /\ pc' = "readback"
  /\ UNCHANGED <<sheet, prev, call>>

\* the tables that are read: a cell may hold a formula that shows nothing
ReadCellKinds == CellKinds \cup {FormulaCell(BlankFormula)}

ReadTables ==
  {Table(hdr, body) : hdr \in HeaderLines, body \in [DataCells -> ReadCellKinds]}

InitRead ==
  /\ \E t \in ReadTables, pivot \in BOOLEAN :
       /\ sheet = IF pivot THEN TransposeSheet(t) ELSE t
       /\ call = [NoCall EXCEPT !.pivot = pivot]
  /\ prev = sheet
  /\ ret = Returned("none", <<>>)
  /\ pc = "idle"

\* the tables with dates: a data cell is blank or holds a text or a date
DateCellKinds == {Blank, Literal("x"), Literal(DateOne), Literal(DateTwo)}

DateTables ==
  {Table(hdr, body) : hdr \in HeaderLines, body \in [DataCells -> DateCellKinds]}

InitDates ==
  /\ \E t \in DateTables, pivot \in BOOLEAN :
       /\ sheet = IF pivot THEN TransposeSheet(t) ELSE t
       /\ call = [NoCall EXCEPT !.pivot = pivot]
  /\ prev = sheet
  /\ ret = Returned("none", <<>>)
  /\ pc = "idle"

\* a caller reads a table with sheetToObjectsV2
Read ==
  /\ pc = "idle"
  /\ \E headerIndex \in HeaderIndexes, startIndex \in Lines :
       /\ ret' = sheetToObjectsV2(sheet, headerIndex, startIndex, call.pivot)
       /\ call' = [NoCall EXCEPT !.fn = "sheetToObjectsV2",
                                 !.headerIndex = headerIndex,
                                 !.startIndex = startIndex,
                                 !.pivot = call.pivot]
  /\ prev' = sheet
  /\ pc' = "read"
  /\ sheet' = SheetAfterRead(sheet, call'.startIndex)

\* a caller writes records as rows with objectsToSheet in one mode
WriteV1(mode) ==
  /\ pc = "idle"
  /\ \E array \in RecordLists, headerRowIndex \in HeaderIndexes,
        startRowIndex \in Lines :
       LET r == objectsToSheet(array, sheet, headerRowIndex, startRowIndex,
                               mode)
       IN  /\ LastLineTouched(array, sheet, startRowIndex, mode, FALSE) <= Dim
           /\ sheet' = r.sheet
           /\ prev' = sheet
           /\ ret' = Returned(r.status, <<>>)
           /\ call' = [fn |-> "objectsToSheet", array |-> array,
                       headerIndex |-> headerRowIndex,
                       startIndex |-> startRowIndex,
                       mode |-> mode, pivot |-> FALSE,
                       preserveFormulas |-> FALSE,
                       columnsToAdd |-> <<>>, useDisplayDates |-> TRUE]
  /\ pc' = "written"

WriteV1Overwrite == WriteV1("overwrite")
WriteV1Append == WriteV1("append")

\* mode strings the writers do not know; objectsToSheet does not know
\* "overlay"
InvalidModes == {"replace"}
InvalidModesV1 == {"overlay"}

\* a caller passes objectsToSheetV2 a mode it does not know
WriteInvalidMode ==
  /\ pc = "idle"
  /\ \E array \in RecordLists, headerIndex \in HeaderIndexes,
        startIndex \in Lines, preserveFormulas \in BOOLEAN,
        mode \in InvalidModes :
       LET pivot == call.pivot
           r == objectsToSheetV2(array, sheet, headerIndex, startIndex, mode,
                                 pivot, preserveFormulas)
       IN  /\ sheet' = r.sheet
           /\ prev' = sheet
           /\ ret' = Returned(r.status, <<>>)
           /\ call' = [fn |-> "objectsToSheetV2", array |-> array,
                       headerIndex |-> headerIndex, startIndex |-> startIndex,
                       mode |-> mode, pivot |-> pivot,
                       preserveFormulas |-> preserveFormulas,
                       columnsToAdd |-> <<>>, useDisplayDates |-> TRUE]
  /\ pc' = "written"

\* a caller passes objectsToSheet a mode it does not know
WriteV1InvalidMode ==
  /\ pc = "idle"
  /\ \E array \in RecordLists, headerRowIndex \in HeaderIndexes,
        startRowIndex \in Lines, mode \in InvalidModesV1 :
       LET r == objectsToSheet(array, sheet, headerRowIndex, startRowIndex,
                               mode)
       IN  /\ sheet' = r.sheet
           /\ prev' = sheet
           /\ ret' = Returned(r.status, <<>>)
           /\ call' = [fn |-> "objectsToSheet", array |-> array,
                       headerIndex |-> headerRowIndex,
                       startIndex |-> startRowIndex,
                       mode |-> mode, pivot |-> FALSE,
                       preserveFormulas |-> FALSE,
                       columnsToAdd |-> <<>>, useDisplayDates |-> TRUE]
  /\ pc' = "written"

\* the tables and records of the upsert calls: match values may be the
\* number 0
UpsertCellKinds == CellKinds \cup {Literal(NumberZero)}

UpsertTables ==
  {Table(hdr, body) : hdr \in HeaderLines,
                      body \in [DataCells -> UpsertCellKinds]}

\* the values of the records: blank, the value the formula cells show, 0
UpsertVals == {"", Eval(Formula), NumberZero}
UpsertRecords == UNION {[S -> UpsertVals] : S \in SUBSET Keys}
UpsertLists == UNION {[1..n -> UpsertRecords] : n \in 0..MaxRecs}

InitUpsert ==
  /\ sheet \in UpsertTables
  /\ call = NoCall
  /\ prev = sheet
  /\ ret = Returned("none", <<>>)
  /\ pc = "idle"

\* the rows a call of upsertRows appends
NewRecordCount(s, data, columnToMatch) ==
  LET sheetData == DataRangeValues(s)
      col == IndexOf(sheetData[1], columnToMatch)
      IsNew(rowObject) == IsNewRecord(rowObject, sheetData, columnToMatch, col)
  IN  IF col = 0 THEN 0 ELSE Len(SelectSeq(data, IsNew))

UpsertCall(data, columnToMatch, headerRowIndex) ==
  LET r == upsertRows(sheet, data, columnToMatch, headerRowIndex)
  IN  /\ getLastNonEmptyRow(sheet) + NewRecordCount(sheet, data, columnToMatch)
           <= Dim
      /\ sheet' = r.sheet
      /\ prev' = sheet
      /\ ret' = Returned(r.status, <<>>)
      /\ call' = [NoCall EXCEPT !.fn = "upsertRows", !.array = data,
                                !.mode = columnToMatch,
                                !.headerIndex = headerRowIndex]

\* a caller upserts records, matching on the Name column
Upsert ==
  /\ pc = "idle"
  /\ \E data \in UpsertLists, headerRowIndex \in HeaderIndexes :
       UpsertCall(data, "Name", headerRowIndex)
  /\ pc' = "upserted"

\* the caller makes the same call once more
UpsertAgain ==
  /\ pc = "upserted"
  /\ UpsertCall(call.array, call.mode, call.headerIndex)
  /\ pc' = "upserted again"

\* the lists of column names a caller asks findAndUpdateRows to update;
\* no header of the model is named Zip
ColumnLists == {<<"Age">>, <<"Name">>, <<"Zip">>, <<"Zip", "Age">>}

\* a caller updates the rows that match on the Name column
FindAndUpdate ==
  /\ pc = "idle"
  /\ \E data \in UpsertLists, columnsToAdd \in ColumnLists :
       LET r == findAndUpdateRows(sheet, data, "Name", columnsToAdd)
           warnings == findAndUpdateRowsWarnings(sheet, data, "Name",
                                                 columnsToAdd)
       IN  /\ sheet' = r.sheet
           /\ prev' = sheet
           /\ ret' = Returned(r.status, warnings)
           /\ call' = [NoCall EXCEPT !.fn = "findAndUpdateRows",
                                     !.array = data, !.mode = "Name",
                                     !.columnsToAdd = columnsToAdd]
  /\ pc' = "updated"

\* the parameters of the calls whose shape is wrong: the records or the
\* column names are not an array, or the match field is not a string
ShortLists == UNION {[1..n -> UpsertRecords] : n \in 0..1}

InvalidUpsertParameters ==
  {<<data, columnToMatch>> \in
     (ShortLists \cup {NotAnArray}) \X {"Name", NumberSeven} :
     ~IsArray(data) \/ ~IsString(columnToMatch)}

InvalidUpdateParameters ==
  {<<data, columnToMatch, columnsToAdd>> \in
     (ShortLists \cup {NotAnArray}) \X {"Name", NumberSeven}
       \X {<<"Age">>, NotAColumnArray} :
     \/ ~IsArray(data) \/ ~IsString(columnToMatch)
     \/ ~IsColumnArray(columnsToAdd)}

\* a caller passes upsertRows parameters of the wrong shape
UpsertInvalid ==
  /\ pc = "idle"
  /\ \E a \in InvalidUpsertParameters :
       LET r == upsertRows(sheet, a[1], a[2], 1)
       IN  /\ sheet' = r.sheet
           /\ prev' = sheet
           /\ ret' = Returned(r.status, <<>>)
           /\ call' = [NoCall EXCEPT !.fn = "upsertRows", !.array = a[1],
                                     !.mode = a[2], !.headerIndex = 1]
  /\ pc' = "upserted"

\* a caller passes findAndUpdateRows parameters of the wrong shape
FindAndUpdateInvalid ==
  /\ pc = "idle"
  /\ \E a \in InvalidUpdateParameters :
       LET r == findAndUpdateRows(sheet, a[1], a[2], a[3])
           warnings == findAndUpdateRowsWarnings(sheet, a[1], a[2], a[3])
       IN  /\ sheet' = r.sheet
           /\ prev' = sheet
           /\ ret' = Returned(r.status, warnings)
           /\ call' = [NoCall EXCEPT !.fn = "findAndUpdateRows",
                                     !.array = a[1], !.mode = a[2],
                                     !.columnsToAdd = a[3]]
  /\ pc' = "updated"

\* records that may carry the empty string as a key, and the lists of at
\* most one of them
AnyKeys == Keys \cup {""}
AnyKeyRecords == UNION {[S -> {"y"}] : S \in SUBSET AnyKeys}
AnyKeyLists == UNION {[1..n -> AnyKeyRecords] : n \in 0..1}

\* a caller writes such records with objectsToSheetV2, in any mode
WriteAnyKeys ==
  /\ pc = "idle"
  /\ \E array \in AnyKeyLists, headerIndex \in HeaderIndexes,
        startIndex \in Lines, preserveFormulas \in BOOLEAN,
        mode \in {"overwrite", "append", "overlay"} :
       LET pivot == call.pivot
           r == objectsToSheetV2(array, sheet, headerIndex, startIndex, mode,
                                 pivot, preserveFormulas)
       IN  /\ LastLineTouched(array, sheet, startIndex, mode, pivot) <= Dim
           /\ sheet' = r.sheet
           /\ prev' = sheet
           /\ ret' = Returned(r.status, <<>>)
           /\ call' = [fn |-> "objectsToSheetV2", array |-> array,
                       headerIndex |-> headerIndex, startIndex |-> startIndex,
                       mode |-> mode, pivot |-> pivot,
                       preserveFormulas |-> preserveFormulas,
                       columnsToAdd |-> <<>>, useDisplayDates |-> TRUE]
  /\ pc' = "written"

\* a caller writes such records with objectsToSheet, in either mode
WriteV1AnyKeys ==
  /\ pc = "idle"
  /\ \E array \in AnyKeyLists, headerRowIndex \in HeaderIndexes,
        startRowIndex \in Lines, mode \in {"overwrite", "append"} :
       LET r == objectsToSheet(array, sheet, headerRowIndex, startRowIndex,
                               mode)
       IN  /\ LastLineTouched(array, sheet, startRowIndex, mode, FALSE) <= Dim
           /\ sheet' = r.sheet
           /\ prev' = sheet
           /\ ret' = Returned(r.status, <<>>)
           /\ call' = [fn |-> "objectsToSheet", array |-> array,
                       headerIndex |-> headerRowIndex,
                       startIndex |-> startRowIndex,
                       mode |-> mode, pivot |-> FALSE,
                       preserveFormulas |-> FALSE,
                       columnsToAdd |-> <<>>, useDisplayDates |-> TRUE]
  /\ pc' = "written"

\* a caller upserts such records, matching on the Age column
UpsertAnyKeys ==
  /\ pc = "idle"
  /\ \E data \in AnyKeyLists, headerRowIndex \in HeaderIndexes :
       UpsertCall(data, "Age", headerRowIndex)
  /\ pc' = "upserted"

\* tables with a line above the header: a title or older header at line 1,
\* the header at line 2, one data line below it
TitleLines == {<<"Title", "">>, <<"Age", "Name">>}

TitledTables ==
  {[p \in Cells |->
      IF p[2] > 2 THEN Blank
      ELSE IF p[1] = 1 THEN Literal(title[p[2]])
      ELSE IF p[1] = 2 THEN Literal(hdr[p[2]])
      ELSE body[p[2]]] :
     title \in TitleLines, hdr \in HeaderLines,
     body \in [1..2 -> UpsertCellKinds]}

InitTitled ==
  /\ sheet \in TitledTables
  /\ call = NoCall
  /\ prev = sheet
  /\ ret = Returned("none", <<>>)
  /\ pc = "idle"

\* the header row a caller of upsertRows names
HeaderRowIndexes == {1, 2}

\* a caller upserts records and names the header row
UpsertAtHeader ==
  /\ pc = "idle"
  /\ \E data \in UpsertLists, headerRowIndex \in HeaderRowIndexes :
       UpsertCall(data, "Name", headerRowIndex)
  /\ pc' = "upserted at header"

\* a caller reads a table with sheetToObjectsV2 and sets the options
ReadAnyOptions ==
  /\ pc = "idle"
  /\ \E headerIndex \in HeaderIndexes, startIndex \in Lines,
        useDisplayDates \in BOOLEAN :
       /\ ret' = sheetToObjectsV2Options(sheet, headerIndex, startIndex,
                                         call.pivot, useDisplayDates)
       /\ call' = [NoCall EXCEPT !.fn = "sheetToObjectsV2",
                                 !.headerIndex = headerIndex,
                                 !.startIndex = startIndex,
                                 !.pivot = call.pivot,
                                 !.useDisplayDates = useDisplayDates]
  /\ prev' = sheet
  /\ pc' = "read"
  /\ sheet' = SheetAfterRead(sheet, call'.startIndex)

\* a caller reads a table with sheetToObjects
ReadV1 ==
  /\ pc = "idle"
  /\ \E headerRow \in HeaderIndexes, startRow \in Lines :
       /\ ret' = sheetToObjects(sheet, startRow, headerRow)
       /\ call' = [NoCall EXCEPT !.fn = "sheetToObjects",
                                 !.headerIndex = headerRow,
                                 !.startIndex = startRow,
                                 !.pivot = call.pivot]
  /\ prev' = sheet
  /\ pc' = "read"
  /\ sheet' = SheetAfterRead(sheet, call'.startIndex)

\* the tables in which no two data lines share a non-blank value of the
\* Name column
KeyedTables ==
  {t \in UpsertTables :
     /\ At(t, 1, 1).v = "Name"
     /\ At(t, 2, 1).v # "" => At(t, 2, 1).v # At(t, 3, 1).v}

InitKeyed ==
  /\ sheet \in KeyedTables
  /\ call = NoCall
  /\ prev = sheet
  /\ ret = Returned("none", <<>>)
  /\ pc = "idle"

\* the caller upserts once more, with another list of records
UpsertNext ==
  /\ pc = "upserted"
  /\ \E data \in ShortLists : UpsertCall(data, call.mode, call.headerIndex)
  /\ pc' = "upserted next"

Next ==
  \/ WriteOverwrite \/ WriteAppend \/ WriteOverlay \/ ReadBack \/ Read
  \/ Upsert \/ UpsertAgain
  \/ WriteV1Overwrite \/ WriteV1Append
  \/ WriteInvalidMode \/ WriteV1InvalidMode
  \/ FindAndUpdate
  \/ UpsertInvalid \/ FindAndUpdateInvalid
  \/ WriteAnyKeys \/ WriteV1AnyKeys \/ UpsertAnyKeys
  \/ UpsertAtHeader
  \/ ReadAnyOptions \/ ReadV1
  \/ UpsertNext

Spec == (Init \/ InitRead \/ InitDates \/ InitUpsert \/ InitTitled) /\ [][Next]_vars

\* the calls of one write mode
SpecOverwrite == Init /\ [][WriteOverwrite \/ ReadBack]_vars
SpecAppend == Init /\ [][WriteAppend \/ ReadBack]_vars
SpecOverlay == Init /\ [][WriteOverlay]_vars
\* reading alone
SpecRead == InitRead /\ [][Read]_vars
\* writing with objectsToSheet
SpecObjectsToSheet == Init /\ [][WriteV1Overwrite \/ WriteV1Append]_vars
\* writing with a mode the writer does not know
SpecInvalidMode == Init /\ [][WriteInvalidMode \/ WriteV1InvalidMode]_vars
\* updating matched rows
SpecFindAndUpdate == InitUpsert /\ [][FindAndUpdate]_vars
\* the two writers that match on a field
SpecMatch == InitUpsert /\ [][Upsert \/ FindAndUpdate]_vars
\* calls with parameters of the wrong shape
SpecInvalidParameters ==
  InitUpsert /\ [][UpsertInvalid \/ FindAndUpdateInvalid]_vars
\* reading, and writing records of any keys with every writer
SpecAnyKeys ==
  Init /\ [][Read \/ WriteAnyKeys \/ WriteV1AnyKeys \/ UpsertAnyKeys]_vars
\* reading tables that hold dates
SpecDates == InitDates /\ [][Read]_vars
\* upserting into tables whose header is not the first line
SpecHeaderRow == InitTitled /\ [][UpsertAtHeader]_vars
\* the two readers, on tables with formulas and on tables with dates
SpecDecode == (InitRead \/ InitDates) /\ [][ReadAnyOptions \/ ReadV1]_vars
\* upserting one list of records after another
SpecKey == InitKeyed /\ [][Upsert \/ UpsertNext]_vars
\* upserting, once and once more
SpecUpsert == InitUpsert /\ [][Upsert \/ UpsertAgain]_vars

(***************************************************************************)
(* Notions the claims are stated with.                                     *)
(***************************************************************************)
\* a cell by line (row, or column when pivot) and position in the line
CellAt(s, line, pos, pivot) ==
  IF pivot THEN At(s, pos, line) ELSE At(s, line, pos)

LineOf(p, pivot) == IF pivot THEN p[2] ELSE p[1]
PosOf(p, pivot) == IF pivot THEN p[1] ELSE p[2]

\* the header line a call reads at headerIndex
HeadersOf(s, headerIndex, pivot) ==
  [j \in 1..(IF pivot THEN getLastRow(s) ELSE getLastColumn(s)) |->
     CellAt(s, headerIndex, j, pivot).v]

FieldNames(s, headerIndex, pivot) ==
  {HeadersOf(s, headerIndex, pivot)[j] :
     j \in DOMAIN HeadersOf(s, headerIndex, pivot)} \ {""}

\* the record supplies the field at position pos of the header line
Supplies(obj, headers, pos) ==
  pos \in DOMAIN headers /\ headers[pos] \in DOMAIN obj

\* the record supplies a non-blank value for some header field
SuppliesValue(obj, headers) ==
  \E pos \in DOMAIN headers :
    Supplies(obj, headers, pos) /\ obj[headers[pos]] # ""

\* the last populated line as the writer computes it
LastPopulated(s, startIndex, pivot) ==
  IF pivot THEN getLastNonEmptyColumn(s, startIndex)
  ELSE getLastNonEmptyRow(s)

NonEmptyTable(s) == \E p \in Cells : s[p].v # ""

HeldFormula(s, fromLine, pivot) ==
  \E p \in Cells : LineOf(p, pivot) >= fromLine /\ s[p].f # ""

(***************************************************************************)
(* C1: round trip.                                                         *)
(***************************************************************************)
C1_Case ==
  /\ pc = "readback" /\ call.mode = "overwrite" /\ ~call.pivot
  /\ \A i \in DOMAIN call.array :
       DOMAIN call.array[i] \subseteq FieldNames(prev, call.headerIndex, FALSE)

\* C1 as stated: for every header line and every list of records whose keys
\* are header field names, overwriting (records as rows) and reading back
\* with the same header and start index returns the list that was written.
C1_RoundTripAnyRecords ==
  C1_Case => ret = Returned("records", call.array)

C1_Writable ==
  /\ Len(call.array) > 0
  /\ \A i \in DOMAIN call.array :
       /\ DOMAIN call.array[i] # {}
       /\ \A key \in DOMAIN call.array[i] : call.array[i][key] # ""
  /\ call.headerIndex < call.startIndex
  /\ ~call.preserveFormulas \/ ~HeldFormula(prev, call.startIndex, FALSE)

\* C1 amended: the round trip returns the list that was written when the
\* list is not empty, every record has a key and only non-blank values, the
\* header line lies before the start line, and no formula of the region is
\* put back (preserveFormulas is off or the region held none).
C1_RoundTrip ==
  C1_Case /\ C1_Writable => ret = Returned("records", call.array)

C1_Witness ==
  /\ C1_Case /\ C1_Writable
  /\ Len(call.array) = 2
  /\ call.array[1] # call.array[2]
  /\ getLastRow(prev) > call.startIndex
  /\ ret = Returned("records", call.array)

(***************************************************************************)
(* C2: append is monotonic.                                                *)
(***************************************************************************)
C2_Case ==
  /\ pc = "written" /\ call.mode = "append"
  /\ NonEmptyTable(prev)

C2_Appended ==
  LET pivot == call.pivot
      N == Len(call.array)
      headers == HeadersOf(prev, call.headerIndex, pivot)
      last == LastPopulated(prev, call.startIndex, pivot)
  IN  /\ LastPopulated(sheet, call.startIndex, pivot) = last + N
      /\ \A p \in Cells : LineOf(p, pivot) <= last => sheet[p] = prev[p]
      /\ \A i \in 1..N : \A pos \in DOMAIN headers :
           CellAt(sheet, last + i, pos, pivot) =
             Literal(EncodeLine(call.array[i], headers)[pos])

\* C2 as stated: for any non-empty table and any list of N records, append
\* moves the last populated line by exactly N, writes the new lines right
\* after the previous last populated line and changes no line before them.
C2_AppendAnyRecords == C2_Case => C2_Appended

\* C2 amended: the same, for a list of N records that is empty or whose
\* last record supplies a non-blank value for a header field.
C2_AppendMonotonic ==
  C2_Case /\ ( \/ Len(call.array) = 0
               \/ SuppliesValue(call.array[Len(call.array)],
                                HeadersOf(prev, call.headerIndex, call.pivot)) )
    => C2_Appended

C2_Witness(pivot) ==
  /\ C2_Case /\ call.pivot = pivot
  /\ Len(call.array) = 2
  /\ ~SuppliesValue(call.array[1], HeadersOf(prev, call.headerIndex, pivot))
  /\ SuppliesValue(call.array[2], HeadersOf(prev, call.headerIndex, pivot))
  /\ C2_Appended

C2_WitnessRows == C2_Witness(FALSE)

(***************************************************************************)
(* C3: overlay never drops untouched fields.                               *)
(***************************************************************************)
\* C3: after an overlay write, in either orientation, a cell whose field
\* the record of its line supplies holds the record's value; every other
\* cell holds the value it held before and, when preserveFormulas is on,
\* the formula it held before.
C3_OverlayKeepsUntouched ==
  pc = "written" /\ call.mode = "overlay" =>
    LET pivot == call.pivot
        headers == HeadersOf(prev, call.headerIndex, pivot)
    IN  \A p \in Cells :
          LET i == LineOf(p, pivot) - call.startIndex + 1
          IN  IF i \in DOMAIN call.array
                 /\ Supplies(call.array[i], headers, PosOf(p, pivot))
              THEN sheet[p] =
                     Literal(call.array[i][headers[PosOf(p, pivot)]])
              ELSE /\ sheet[p].v = prev[p].v
                   /\ call.preserveFormulas => sheet[p].f = prev[p].f

C3_Witness ==
  /\ pc = "written" /\ call.mode = "overlay" /\ call.preserveFormulas
  /\ call.array = <<[Age |-> "y"]>>
  /\ HeadersOf(prev, call.headerIndex, call.pivot) = <<"Name", "Age">>
  /\ CellAt(prev, call.startIndex, 1, call.pivot) = FormulaCell(Formula)
  /\ CellAt(sheet, call.startIndex, 1, call.pivot) = FormulaCell(Formula)
  /\ CellAt(prev, call.startIndex, 2, call.pivot) = Literal("x")
  /\ CellAt(sheet, call.startIndex, 2, call.pivot) = Literal("y")

(***************************************************************************)
(* C4: overwrite with formula preservation.                                *)
(***************************************************************************)
C4_Kept(p) ==
  LET pivot == call.pivot
      headers == HeadersOf(prev, call.headerIndex, pivot)
  IN  /\ LineOf(p, pivot) >= call.startIndex
      /\ prev[p].f # ""
      /\ \A i \in DOMAIN call.array :
           ~Supplies(call.array[i], headers, PosOf(p, pivot))

\* C4: after an overwrite with preserveFormulas on, every cell from the
\* start line on that held a formula, and whose field no record supplies,
\* holds that formula again.
C4_OverwriteKeepsFormulas ==
  pc = "written" /\ call.mode = "overwrite" /\ call.preserveFormulas =>
    \A p \in Cells : C4_Kept(p) => sheet[p] = prev[p]

C4_Witness ==
  /\ pc = "written" /\ call.mode = "overwrite" /\ call.preserveFormulas
  /\ ~call.pivot
  /\ Len(call.array) = 2
  /\ \E p \in Cells :
       /\ C4_Kept(p)
       /\ LineOf(p, FALSE) = call.startIndex + 1
       /\ sheet[p] = prev[p]
       /\ \E q \in Cells : q[1] = p[1] /\ sheet[q] = Literal("y")


(***************************************************************************)
(* Notions of the upsert claims.                                           *)
(***************************************************************************)
\* the header names at line 1 of the table the call found
UpsertHeaders == DataRangeValues(prev)[1]

\* the column of the match field
MatchColumn == IndexOf(UpsertHeaders, call.mode)

\* the record carries a non-blank value for the match field
Keyed(obj) == hasOwnProperty(obj, call.mode) /\ obj[call.mode] # ""

\* the existing data lines whose match value is the record's
MatchedLines(obj) ==
  {line \in 2..getLastRow(prev) :
     Keyed(obj) /\ At(prev, line, MatchColumn).v = obj[call.mode]}

\* no later record of the call has the same match value
LastOfItsKey(i) ==
  \A k \in DOMAIN call.array :
    k > i /\ Keyed(call.array[k])
      => call.array[k][call.mode] # call.array[i][call.mode]

\* the line holds the record's value in the column of each header name that
\* is a key of the record
HoldsRecord(s, line, obj) ==
  \A j \in DOMAIN UpsertHeaders :
    UpsertHeaders[j] \in DOMAIN obj /\ IndexOf(UpsertHeaders, UpsertHeaders[j]) = j
      => At(s, line, j) = Literal(obj[UpsertHeaders[j]])

LineUnchanged(line) == \A j \in Lines : At(sheet, line, j) = At(prev, line, j)

\* a call of upsertRows that found the match field and returned
UpsertCase ==
  /\ pc = "upserted" /\ ret.kind = "ok"
  /\ Len(call.array) > 0 /\ MatchColumn # 0

(***************************************************************************)
(* C5: upsert idempotence.                                                 *)
(***************************************************************************)
\* C5: calling upsertRows a second time with the identical input leaves the
\* sheet cell for cell as the first call left it; stated for the inputs in
\* which every record carries a non-blank match value.
C5_UpsertIdempotent ==
  pc = "upserted again" /\ (\A i \in DOMAIN call.array : Keyed(call.array[i]))
    => sheet = prev

(***************************************************************************)
(* C6: upsert updates or inserts.                                          *)
(***************************************************************************)
C6_Inserts == SelectSeq(call.array, LAMBDA obj : MatchedLines(obj) = {})

\* C6: every record whose match value is an existing line's is written into
\* such a line, every other record becomes one new line after the last
\* populated line, padded with "", and the existing lines no record matches
\* are unchanged.
C6_UpdateOrInsert ==
  UpsertCase =>
    /\ \A k \in DOMAIN C6_Inserts : \A j \in DOMAIN UpsertHeaders :
         At(sheet, getLastNonEmptyRow(prev) + k, j)
           = Literal(EncodeLine(C6_Inserts[k], UpsertHeaders)[j])
    /\ getLastRow(sheet) <= getLastNonEmptyRow(prev) + Len(C6_Inserts)
    /\ \A i \in DOMAIN call.array :
         MatchedLines(call.array[i]) # {} /\ LastOfItsKey(i)
           => \E line \in MatchedLines(call.array[i]) :
                HoldsRecord(sheet, line, call.array[i])
    /\ \A line \in 2..getLastRow(prev) :
         (\A i \in DOMAIN call.array : line \notin MatchedLines(call.array[i]))
           => LineUnchanged(line)

(***************************************************************************)
(* C7: upsert tie-break.                                                   *)
(***************************************************************************)
\* C7: when several existing lines carry a record's match value, the record
\* is written into the first of them and no later one changes.
C7_FirstLineWins ==
  UpsertCase =>
    \A i \in DOMAIN call.array :
      LET L == MatchedLines(call.array[i])
          first == CHOOSE line \in L : \A other \in L : line <= other
      IN  Cardinality(L) >= 2 /\ ~Falsy(call.array[i][call.mode])
            => /\ LastOfItsKey(i) => HoldsRecord(sheet, first, call.array[i])
               /\ \A line \in L \ {first} : LineUnchanged(line)

(***************************************************************************)
(* C8: an upsert update touches only the explicit fields.                  *)
(***************************************************************************)
\* C8: a cell of an existing line changes only on a line that a record
\* matches, in the column of a header name that is a key of that record, and
\* then holds the record's value; every other cell of the existing lines
\* keeps its value and its formula.
C8_UpdateTouchesOnlyExplicitFields ==
  UpsertCase =>
    \A p \in Cells :
      p[1] <= getLastNonEmptyRow(prev) /\ sheet[p] # prev[p]
        => \E i \in DOMAIN call.array :
             /\ p[1] \in MatchedLines(call.array[i])
             /\ p[2] \in DOMAIN UpsertHeaders
             /\ UpsertHeaders[p[2]] \in DOMAIN call.array[i]
             /\ IndexOf(UpsertHeaders, UpsertHeaders[p[2]]) = p[2]
             /\ sheet[p] = Literal(call.array[i][UpsertHeaders[p[2]]])

\* an update replaced the formula in the match cell of a line by the
\* record's value and left the formula in the cell of a field the record
\* does not have
C8_Witness ==
  /\ UpsertCase
  /\ \E i \in DOMAIN call.array, line \in 2..Dim :
       /\ line \in MatchedLines(call.array[i])
       /\ "Age" \notin DOMAIN call.array[i]
       /\ UpsertHeaders = <<"Name", "Age">>
       /\ prev[<<line, 1>>].f # ""
       /\ sheet[<<line, 1>>] = Literal(call.array[i]["Name"])
       /\ prev[<<line, 2>>].f # ""
       /\ sheet[<<line, 2>>] = prev[<<line, 2>>]

(***************************************************************************)
(* C9: pivot symmetry of reading.                                          *)
(***************************************************************************)
\* C9: reading a table with pivot on returns what reading the transposed
\* table with pivot off returns, for the same header and start index.
C9_PivotSymmetry ==
  pc = "read" /\ call.pivot =>
    ret = sheetToObjectsV2(TransposeSheet(sheet), call.headerIndex,
                           call.startIndex, FALSE)

(***************************************************************************)
(* C10: the write modes do not depend on the orientation.                  *)
(***************************************************************************)
C10_SameAsTransposed ==
  sheet = TransposeSheet(
            objectsToSheetV2(call.array, TransposeSheet(prev),
                             call.headerIndex, call.startIndex, call.mode,
                             FALSE, call.preserveFormulas).sheet)

\* C10: a write with pivot on leaves the transpose of what the same write
\* with pivot off leaves on the transposed table, in every mode.
C10_OrientationIndependent ==
  pc = "written" /\ call.pivot => C10_SameAsTransposed

(***************************************************************************)
(* C11: overwrite replaces the data region.                                *)
(***************************************************************************)
\* the last line with content before the call
C11_PreviousLast == IF call.pivot THEN getLastColumn(prev) ELSE getLastRow(prev)

C11_Replaced ==
  LET headers == HeadersOf(prev, call.headerIndex, call.pivot)
      N == Len(call.array)
  IN  /\ \A i \in 1..N : \A j \in DOMAIN headers :
           CellAt(sheet, call.startIndex + i - 1, j, call.pivot)
             = Literal(EncodeLine(call.array[i], headers)[j])
      /\ \A line \in (call.startIndex + N)..C11_PreviousLast : \A j \in Lines :
           CellAt(sheet, line, j, call.pivot) = Blank

\* C11: after an overwrite without formula preservation the lines from
\* startIndex hold the encoded records and every line after them, up to the
\* line that was the last with content, is blank, in both orientations.
C11_OverwriteReplaces ==
  /\ pc = "written" /\ call.mode = "overwrite" /\ ~call.preserveFormulas
  /\ ret.kind = "ok"
  => C11_Replaced

(***************************************************************************)
(* C12: reading a data region of blank cells.                              *)
(***************************************************************************)
\* every cell from startIndex on shows nothing, and the header line lies
\* before startIndex
C12_AllBlank ==
  /\ pc = "read"
  /\ call.headerIndex < call.startIndex
  /\ \A p \in Cells : LineOf(p, call.pivot) >= call.startIndex => sheet[p].v = ""

\* the sheet has content at or after startIndex
C12_Present ==
  (IF call.pivot THEN getLastColumn(sheet) ELSE getLastRow(sheet))
    >= call.startIndex

\* C12 as stated: reading a table whose lines from startIndex on consist of
\* blank cells returns the tagged empty result.
C12_BlankRegionAnyExtent ==
  C12_AllBlank => ret = Returned("empty", <<>>)

\* C12 amended: reading a table whose lines from startIndex on show only
\* blank values, and whose last line with content is not before startIndex,
\* returns the tagged empty result, in both orientations.
C12_BlankRegionIsTaggedEmpty ==
  C12_AllBlank /\ C12_Present => ret = Returned("empty", <<>>)

\* a read of two data lines that hold formulas showing nothing
C12_Witness ==
  /\ C12_AllBlank /\ C12_Present
  /\ call.startIndex = 2
  /\ \E p \in Cells : LineOf(p, call.pivot) = 3 /\ sheet[p].f = BlankFormula
  /\ \E p \in Cells : LineOf(p, call.pivot) = 2 /\ sheet[p].f = BlankFormula
  /\ ret = Returned("empty", <<>>)

(***************************************************************************)
(* C13: the empty extent.                                                  *)
(***************************************************************************)
\* C13: a read of a table whose last line with content lies before
\* startIndex returns the empty-sheet result (null), which is neither a list
\* of records nor the tagged empty result, and raises no error, in both
\* orientations.
C13_EmptyExtentSentinel ==
  pc = "read" /\ ~C12_Present => ret = Returned("null", <<>>)

(***************************************************************************)
(* C14: the replayed formulas win.                                         *)
(***************************************************************************)
C14_Case ==
  /\ pc = "written" /\ call.fn = "objectsToSheetV2"
  /\ call.mode = "overwrite" /\ call.preserveFormulas

\* C14: after an overwrite with preserveFormulas on, every cell from the
\* start line on that held a formula holds that formula, also where a
\* record wrote a value into the cell: the formulas are put back after the
\* values are written.
C14_FormulaReplayWins ==
  C14_Case =>
    \A p \in Cells :
      LineOf(p, call.pivot) >= call.startIndex /\ prev[p].f # ""
        => sheet[p] = FormulaCell(prev[p].f)

\* a record supplied a value for a cell that held a formula, and the cell
\* holds the formula
C14_Witness ==
  /\ C14_Case /\ ~call.pivot
  /\ \E p \in Cells, i \in DOMAIN call.array :
       LET headers == HeadersOf(prev, call.headerIndex, FALSE)
       IN  /\ p[1] = call.startIndex + i - 1
           /\ prev[p].f # ""
           /\ Supplies(call.array[i], headers, p[2])
           /\ call.array[i][headers[p[2]]] = "y"
           /\ sheet[p] = FormulaCell(prev[p].f)

(***************************************************************************)
(* C15: a mode that is not recognised.                                     *)
(***************************************************************************)
C15_Case ==
  /\ pc = "written"
  /\ \/ call.fn = "objectsToSheetV2"
        /\ call.mode \notin {"overwrite", "append", "overlay"}
     \/ call.fn = "objectsToSheet" /\ call.mode \notin {"overwrite", "append"}

\* C15: a write with a mode string the writer does not recognise raises an
\* error and changes no cell, for every record list and either orientation.
C15_InvalidModeRaises ==
  C15_Case => ret.kind = "error" /\ sheet = prev

\* the call with the empty list, records as columns, on a sheet with data
C15_Witness ==
  /\ C15_Case /\ call.fn = "objectsToSheetV2" /\ call.pivot
  /\ call.array = <<>>
  /\ getLastColumn(prev) = Dim
  /\ ret.kind = "error" /\ sheet = prev

(***************************************************************************)
(* C16: the match field is not a header name.                              *)
(***************************************************************************)
C16_Case ==
  /\ pc \in {"upserted", "updated"}
  /\ MatchColumn = 0

\* the call has something to do: upsertRows has records, findAndUpdateRows
\* finds a line below line 1
C16_Work ==
  /\ call.fn = "upsertRows" => Len(call.array) > 0
  /\ call.fn = "findAndUpdateRows" => getLastRow(prev) >= 2

\* C16 as stated: when the match field is not among the header names,
\* upsertRows and findAndUpdateRows raise an error, for every table content,
\* and change no cell.
C16_NotFoundAlways ==
  C16_Case => ret.kind = "error" /\ sheet = prev

\* C16 amended: when the match field is not among the header names the call
\* changes no cell, and it raises an error when upsertRows has at least one
\* record and when findAndUpdateRows finds at least one line below line 1.
C16_NotFoundRaises ==
  C16_Case => /\ sheet = prev
              /\ C16_Work => ret.kind = "error"

\* findAndUpdateRows raised on a table whose first column has no name and
\* shows, in a data line, the match value of a record
C16_Witness ==
  /\ C16_Case /\ C16_Work
  /\ call.fn = "findAndUpdateRows"
  /\ \E i \in DOMAIN call.array, line \in 2..Dim :
       /\ Keyed(call.array[i])
       /\ At(prev, line, 1).v = call.array[i][call.mode]
  /\ ret.kind = "error" /\ sheet = prev

(***************************************************************************)
(* C17: parameters of the wrong shape.                                     *)
(***************************************************************************)
C17_Case ==
  /\ pc \in {"upserted", "updated"}
  /\ \/ ~IsArray(call.array)
     \/ ~IsString(call.mode)
     \/ call.fn = "findAndUpdateRows" /\ ~IsColumnArray(call.columnsToAdd)

\* C17: upsertRows and findAndUpdateRows raise an error and leave the sheet
\* unchanged when the records are not an array or the match field is not a
\* string and, for findAndUpdateRows, when the column names are not an
\* array.
C17_InvalidParametersRaise ==
  C17_Case => ret.kind = "error" /\ sheet = prev

\* upsertRows raised for records that are not an array, with a match field
\* that is a header name, on a sheet with data
C17_Witness ==
  /\ C17_Case /\ call.fn = "upsertRows"
  /\ ~IsArray(call.array) /\ MatchColumn # 0
  /\ getLastRow(prev) = Dim
  /\ ret.kind = "error" /\ sheet = prev

(***************************************************************************)
(* C18: requested columns the header lacks.                                *)
(***************************************************************************)
C18_Present(column) == IndexOf(UpsertHeaders, column) # 0

\* findAndUpdateRows was asked for a column the header lacks; the match
\* field is a header name
C18_Case ==
  /\ pc = "updated" /\ MatchColumn # 0
  /\ IsArray(call.array) /\ IsColumnArray(call.columnsToAdd)
  /\ \E k \in DOMAIN call.columnsToAdd : ~C18_Present(call.columnsToAdd[k])

\* the call is treated as the call without the names the header lacks, and
\* every line whose match value is a record's holds, in each requested
\* column the header has, the value of the last such record
C18_SkipsAndUpdates ==
  LET present == SelectSeq(call.columnsToAdd, C18_Present)
      asIf == findAndUpdateRows(prev, call.array, call.mode, present)
  IN  /\ ret.kind = "ok"
      /\ sheet = asIf.sheet
      /\ \A line \in 2..getLastRow(prev) : \A k \in DOMAIN present :
           LET hit == LookupIndex(call.array, call.mode,
                                  At(prev, line, MatchColumn).v)
           IN  hit # 0 =>
                 At(sheet, line, IndexOf(UpsertHeaders, present[k]))
                   = Literal(ValueOrEmpty(call.array[hit], present[k]))

C18_Warned ==
  ret.data = SelectSeq(call.columnsToAdd, LAMBDA column : ~C18_Present(column))

\* C18 as stated: asked for names the header lacks, findAndUpdateRows raises
\* no error, records a warning for each such name and updates the matched
\* lines in the other requested columns as if those names had not been
\* requested.
C18_BestEffortAlwaysWarns ==
  C18_Case => C18_SkipsAndUpdates /\ C18_Warned

\* C18 amended: the same, with the warnings recorded when the sheet has a
\* line with content below line 1.
C18_BestEffort ==
  C18_Case => /\ C18_SkipsAndUpdates
              /\ getLastRow(prev) >= 2 => C18_Warned

\* asked for Zip and Age, the call warned about Zip and changed an Age cell
C18_Witness ==
  /\ C18_Case /\ C18_SkipsAndUpdates
  /\ call.columnsToAdd = <<"Zip", "Age">>
  /\ UpsertHeaders = <<"Name", "Age">>
  /\ ret.data = <<"Zip">>
  /\ \E line \in 2..Dim : sheet[<<line, 2>>] # prev[<<line, 2>>]

(***************************************************************************)
(* C19: findAndUpdateRows and the update path of upsertRows.               *)
(***************************************************************************)
\* the requested columns are header names and every record carries a match
\* value that a data line shows
C19_Case ==
  /\ pc = "updated" /\ MatchColumn # 0
  /\ IsArray(call.array) /\ IsColumnArray(call.columnsToAdd)
  /\ \A k \in DOMAIN call.columnsToAdd : C18_Present(call.columnsToAdd[k])
  /\ \A i \in DOMAIN call.array : MatchedLines(call.array[i]) # {}

\* the record with its keys among the requested columns, and the match field
C19_Restricted(obj) ==
  LET F == {call.columnsToAdd[k] : k \in DOMAIN call.columnsToAdd}
  IN  [key \in DOMAIN obj \cap (F \cup {call.mode}) |-> obj[key]]

C19_Upserted ==
  upsertRows(prev, [i \in DOMAIN call.array |-> C19_Restricted(call.array[i])],
             call.mode, 1).sheet

\* C19: findAndUpdateRows leaves the cell values that upsertRows leaves for
\* the same records restricted to the requested columns (and the match
\* field), and adds no line.
C19_SameAsUpsertUpdate ==
  C19_Case =>
    /\ \A p \in Cells : sheet[p].v = C19_Upserted[p].v
    /\ getLastRow(sheet) <= getLastRow(prev)

(***************************************************************************)
(* C20: blank header entries.                                              *)
(***************************************************************************)
\* the header line the call used; upsertRows takes line 1 of the data range
C20_Headers ==
  IF call.fn = "upsertRows" THEN UpsertHeaders
  ELSE HeadersOf(prev, call.headerIndex, call.pivot)

\* a cell at a position where the header line has a blank entry
C20_UnderBlankHeader(p) ==
  LET pos == PosOf(p, call.pivot /\ call.fn # "upsertRows")
  IN  pos \in DOMAIN C20_Headers /\ C20_Headers[pos] = ""

\* C20: (a) no record that sheetToObjectsV2 returns has a key from a blank
\* header entry; (b) no write by objectsToSheetV2, objectsToSheet or
\* upsertRows changes a cell at the position of a blank header entry,
\* whatever keys the records carry.
C20_BlankHeadersSkipped ==
  /\ pc = "read" /\ ret.kind = "records" =>
       \A i \in DOMAIN ret.data : "" \notin DOMAIN ret.data[i]
  /\ pc \in {"written", "upserted"} =>
       \A p \in Cells : C20_UnderBlankHeader(p) => sheet[p] = prev[p]

(***************************************************************************)
(* C21: dates are returned as displayed.                                   *)
(***************************************************************************)
\* the lines from startIndex on that are not blank, in order
C21_Lines ==
  LET last == IF call.pivot THEN getLastColumn(sheet) ELSE getLastRow(sheet)
      n == IF last >= call.startIndex THEN last - call.startIndex + 1 ELSE 0
  IN  SelectSeq([k \in 1..n |-> call.startIndex + k - 1],
                LAMBDA line : \E pos \in Lines :
                                CellAt(sheet, line, pos, call.pivot).v # "")

\* the field of a record comes from this position of the header line: the
\* name is not blank, the cell is not empty, and no later position of the
\* same name has a cell that is not empty
C21_Source(line, pos, headers) ==
  /\ headers[pos] # ""
  /\ CellAt(sheet, line, pos, call.pivot).v # ""
  /\ \A later \in DOMAIN headers :
       later > pos /\ headers[later] = headers[pos]
         => CellAt(sheet, line, later, call.pivot).v = ""

\* C21: with useDisplayDates on, a field whose cell holds a date is the
\* displayed text of that cell and a field of any other cell is the cell's
\* value, also when blank lines come before the line of the record.
C21_DatesAsDisplayed ==
  pc = "read" /\ ret.kind = "records" =>
    LET headers == HeadersOf(sheet, call.headerIndex, call.pivot)
    IN  /\ Len(ret.data) = Len(C21_Lines)
        /\ \A i \in DOMAIN ret.data : \A pos \in DOMAIN headers :
             C21_Source(C21_Lines[i], pos, headers) =>
               /\ headers[pos] \in DOMAIN ret.data[i]
               /\ ret.data[i][headers[pos]]
                    = Display(CellAt(sheet, C21_Lines[i], pos, call.pivot).v)

(***************************************************************************)
(* C22: upsert and the header row.                                         *)
(***************************************************************************)
\* the field names at the header row the call named
C22_Headers ==
  [j \in 1..getLastColumn(prev) |-> At(prev, call.headerIndex, j).v]

\* the record carries a match value that is neither blank nor 0
C22_Keyed(obj) == Keyed(obj) /\ obj[call.mode] # NumberZero

\* C22: upsertRows reads the field names from the header row h it is given
\* and treats only the rows below h as data: the match field is looked up
\* among the names of row h, no row up to h is changed, and the match value
\* of every record is afterwards found in a row below h, in the column that
\* row h names.
C22_HeaderRowRespected ==
  pc = "upserted at header" /\ Len(call.array) > 0 =>
    /\ ret.kind = "error" <=> IndexOf(C22_Headers, call.mode) = 0
    /\ \A line \in 1..call.headerIndex : LineUnchanged(line)
    /\ ret.kind = "ok" =>
         \A i \in DOMAIN call.array :
           C22_Keyed(call.array[i]) =>
             \E line \in (call.headerIndex + 1)..Dim :
               At(sheet, line, IndexOf(C22_Headers, call.mode)).v
                 = call.array[i][call.mode]

(***************************************************************************)
(* C23: findAndUpdateRows and the cells it is not asked to change.         *)
(***************************************************************************)
\* the columns the call was asked to update
C23_TargetColumns ==
  {IndexOf(UpsertHeaders, call.columnsToAdd[k]) :
     k \in DOMAIN call.columnsToAdd} \ {0}

\* the match value of the line is the match value of some record
C23_Matched(line) ==
  \E i \in DOMAIN call.array :
    /\ hasOwnProperty(call.array[i], call.mode)
    /\ call.array[i][call.mode] = At(prev, line, MatchColumn).v

\* the lines that have content
C23_Populated(s) == {line \in Lines : \E j \in Lines : HasContent(At(s, line, j))}

\* C23: after a call of findAndUpdateRows every cell outside the target
\* columns holds its previous value, every cell of a target column on a
\* line whose match value is no record's match value holds its previous
\* value, and the number of populated lines is unchanged.
C23_UntouchedPreserved ==
  pc = "updated" =>
    /\ \A p \in Cells :
         p[2] \notin C23_TargetColumns \/ p[1] = 1 \/ ~C23_Matched(p[1])
           => sheet[p].v = prev[p].v
    /\ Cardinality(C23_Populated(sheet)) = Cardinality(C23_Populated(prev))

(***************************************************************************)
(* C24: the partition of upsertRows.                                       *)
(***************************************************************************)
\* the call routes the record to the insert path
C24_Inserted(obj) ==
  IsNewRecord(obj, DataRangeValues(prev), call.mode, MatchColumn)

\* C24: upsertRows routes a record to the update path if and only if its
\* match value is the match value of some existing data line, and to the
\* insert path otherwise, for every match value, the number 0 included.
C24_Partition ==
  UpsertCase =>
    \A i \in DOMAIN call.array :
      C24_Inserted(call.array[i]) <=> MatchedLines(call.array[i]) = {}

(***************************************************************************)
(* C25: two header positions of one name.                                  *)
(***************************************************************************)
\* the positions of the header line that carry the name
C25_Positions(headers, name) == {pos \in DOMAIN headers : headers[pos] = name}

\* the names that two positions of the header line carry
C25_Duplicates(headers) ==
  {name \in {headers[pos] : pos \in DOMAIN headers} :
     name # "" /\ Cardinality(C25_Positions(headers, name)) >= 2}

\* the positions of the name whose cell on the line is not blank
C25_NonBlank(line, headers, name) ==
  {pos \in C25_Positions(headers, name) :
     CellAt(sheet, line, pos, call.pivot).v # ""}

C25_Case ==
  /\ pc = "read" /\ ret.kind = "records"
  /\ Len(ret.data) = Len(C21_Lines)
  /\ C25_Duplicates(HeadersOf(sheet, call.headerIndex, call.pivot)) # {}

\* C25: when two header positions carry one name, a record has a field of
\* that name exactly when one of the two cells is not blank, and its value
\* is that of the last position whose cell is not blank.
C25_LastNonBlankWins ==
  pc = "read" /\ ret.kind = "records" =>
    LET headers == HeadersOf(sheet, call.headerIndex, call.pivot)
    IN  /\ Len(ret.data) = Len(C21_Lines)
        /\ \A i \in DOMAIN ret.data : \A name \in C25_Duplicates(headers) :
             LET set == C25_NonBlank(C21_Lines[i], headers, name)
             IN  IF set = {} THEN name \notin DOMAIN ret.data[i]
                 ELSE /\ name \in DOMAIN ret.data[i]
                      /\ ret.data[i][name]
                           = CellAt(sheet, C21_Lines[i], Max(set), call.pivot).v

\* a record whose field comes from the earlier position, the later cell
\* being blank
C25_Witness ==
  /\ C25_Case
  /\ \E i \in DOMAIN ret.data :
       /\ CellAt(sheet, C21_Lines[i], 1, call.pivot).v # ""
       /\ CellAt(sheet, C21_Lines[i], 2, call.pivot).v = ""
       /\ C21_Lines[i] # call.headerIndex
       /\ ret.data[i]["Name"] = CellAt(sheet, C21_Lines[i], 1, call.pivot).v

\* C25 as stated: the value of the field is that of the later position, for
\* every combination of blank and non-blank cells at the two positions (a
\* blank value being a field that is absent).
C25_LaterPositionWins ==
  pc = "read" /\ ret.kind = "records" =>
    LET headers == HeadersOf(sheet, call.headerIndex, call.pivot)
    IN  /\ Len(ret.data) = Len(C21_Lines)
        /\ \A i \in DOMAIN ret.data : \A name \in C25_Duplicates(headers) :
             LET later == Max(C25_Positions(headers, name))
                 value == CellAt(sheet, C21_Lines[i], later, call.pivot).v
             IN  IF name \in DOMAIN ret.data[i]
                 THEN ret.data[i][name] = value
                 ELSE value = ""

C27_NoFormulas ==
  \A p \in Cells :
    LineOf(p, call.pivot) \in
      call.startIndex..(call.startIndex + Len(call.array) - 1)
      => prev[p].f = ""

\* the same call with the other value of preserveFormulas
C27_OtherPath ==
  objectsToSheetV2(call.array, prev, call.headerIndex, call.startIndex,
                   "overlay", call.pivot, ~call.preserveFormulas)

\* C27: on a table whose target region holds no formula, and for a record
\* list that is not empty, the overlay with preserveFormulas false leaves
\* the cell values the overlay with preserveFormulas true leaves, in both
\* orientations.
C27_PathsAgree ==
  pc = "written" /\ call.mode = "overlay" /\ Len(call.array) > 0
    /\ C27_NoFormulas
    => /\ ret.kind = C27_OtherPath.status
       /\ \A p \in Cells : sheet[p].v = C27_OtherPath.sheet[p].v

\* an overlay of two records over lines with values changed some cells and
\* kept others, in the columns orientation
C27_Witness ==
  /\ pc = "written" /\ call.mode = "overlay" /\ call.pivot
  /\ ~call.preserveFormulas /\ C27_NoFormulas /\ ret.kind = "ok"
  /\ call.array = <<[Age |-> "y"], [Name |-> ""]>>
  /\ \E p \in Cells : sheet[p].v # prev[p].v
  /\ \E p \in Cells :
       /\ LineOf(p, TRUE) = call.startIndex
       /\ prev[p].v = "x" /\ sheet[p].v = "x"
  /\ \A p \in Cells : sheet[p].v = C27_OtherPath.sheet[p].v

(***************************************************************************)
(* C28: append to a table without data, then decode.                       *)
(***************************************************************************)
\* records were appended to a table that had a header line and no data
\* line, with a start line after the header line, and read back; every
\* record has a key, its keys are header names and its values not blank
C28_Case ==
  /\ pc = "readback" /\ call.mode = "append"
  /\ FieldNames(prev, call.headerIndex, call.pivot) # {}
  /\ \A p \in Cells : LineOf(p, call.pivot) # call.headerIndex => prev[p] = Blank
  /\ call.startIndex > call.headerIndex
  /\ Len(call.array) > 0
  /\ \A i \in DOMAIN call.array :
       /\ DOMAIN call.array[i] # {}
       /\ DOMAIN call.array[i]
            \subseteq FieldNames(prev, call.headerIndex, call.pivot)
       /\ \A key \in DOMAIN call.array[i] : call.array[i][key] # ""

\* C28: appending a non-empty record list to a table that has a header line
\* and no data lines, and decoding with the same headerIndex and startIndex,
\* returns the appended records in order, for every startIndex after the
\* header line.
C28_AppendThenDecode ==
  C28_Case => ret = Returned("records", call.array)

(***************************************************************************)
(* C29: the match column as a key.                                         *)
(***************************************************************************)
\* no two data lines share a non-blank value of the match column
C29_Key(s) ==
  \A line \in 2..Dim : \A other \in 2..Dim :
    line # other /\ At(s, line, MatchColumn).v # ""
      => At(s, line, MatchColumn).v # At(s, other, MatchColumn).v

\* C29: when no two data lines share a non-blank match value before a call
\* of upsertRows, none do after it, whatever the list of records, so that
\* the match column stays a key over any sequence of calls.
C29_MatchColumnStaysKey ==
  pc \in {"upserted", "upserted next"} /\ MatchColumn # 0 /\ C29_Key(prev)
    => C29_Key(sheet)

=============================================================================
